---- MODULE Spec2Model ----
(***************************************************************************)
(* Model of the weighted keyword search engine of agent-openpools          *)
(* (src/src/core/keyword_search.py, KeywordSearchEngine) and of the price  *)
(* parsing of the details panel (src/app.py, render_details_panel).        *)
(*                                                                         *)
(* Text is modelled as a sequence of one-character strings, so that        *)
(* str.lower, str.split, str.strip, str.replace and the substring test     *)
(* `in` are computed character by character as Python computes them.       *)
(* Floating point numbers are modelled as exact rationals; the float       *)
(* values nan and inf are kept as values of their own.                     *)
(***************************************************************************)
EXTENDS Integers, Sequences, FiniteSets, TLC

(***************************************************************************)
(* Bounds of the model.                                                    *)
(***************************************************************************)
MaxRecords == 2
MaxKeywords == 2
MaxLimit == 1
MaxPriceLen == 3
MaxFunnels == 2

(***************************************************************************)
(* Small arithmetic helpers.                                               *)
(***************************************************************************)
Min(a, b) == IF a <= b THEN a ELSE b

RECURSIVE Gcd(_, _)
Gcd(a, b) == IF b = 0 THEN a ELSE Gcd(b, a % b)

RECURSIVE Pow10(_)
Pow10(k) == IF k = 0 THEN 1 ELSE 10 * Pow10(k - 1)

(***************************************************************************)
(* Python strings.                                                         *)
(***************************************************************************)
\* " ".join(parts)
RECURSIVE Join(_)
Join(parts) ==
    IF Len(parts) = 0 THEN <<>>
    ELSE IF Len(parts) = 1 THEN parts[1]
    ELSE parts[1] \o <<" ">> \o Join(Tail(parts))

\* str.lower() of one character (the letters the model's texts use)
LowerChar(c) ==
    CASE c = "S" -> "s"
      [] c = "W" -> "w"
      [] c = "P" -> "p"
      [] c = "D" -> "d"
      [] c = "E" -> "e"
      [] c = "N" -> "n"
      [] c = "A" -> "a"
      [] c = "I" -> "i"
      [] c = "F" -> "f"
      [] OTHER -> c

\* str.lower()
Lower(s) == [i \in 1..Len(s) |-> LowerChar(s[i])]

IsSpace(c) == c = " "

\* str.strip(): whitespace removed at both ends
RECURSIVE LStrip(_)
LStrip(s) == IF Len(s) > 0 /\ IsSpace(s[1]) THEN LStrip(Tail(s)) ELSE s

RECURSIVE RStrip(_)
RStrip(s) ==
    IF Len(s) > 0 /\ IsSpace(s[Len(s)]) THEN RStrip(SubSeq(s, 1, Len(s) - 1)) ELSE s

Strip(s) == LStrip(RStrip(s))

\* str.replace(c, ''): every occurrence of the character removed
RemoveChar(s, c) == SelectSeq(s, LAMBDA x : x # c)

\* c in s, for one character
HasChar(s, c) == \E i \in 1..Len(s) : s[i] = c

\* s.split(c)[0]: the text left of the first occurrence of c
RECURSIVE BeforeFirst(_, _)
BeforeFirst(s, c) ==
    IF Len(s) = 0 \/ s[1] = c THEN <<>>
    ELSE <<s[1]>> \o BeforeFirst(Tail(s), c)

\* sub in s: sub occurs in s as a contiguous substring ('' occurs in any s)
Contains(s, sub) ==
    \E i \in 0..(Len(s) - Len(sub)) :
        \A j \in 1..Len(sub) : s[i + j] = sub[j]

\* str.split(): the maximal runs of non-whitespace characters, in order
RECURSIVE SplitAcc(_, _, _)
SplitAcc(s, cur, acc) ==
    IF Len(s) = 0
    THEN IF Len(cur) > 0 THEN Append(acc, cur) ELSE acc
    ELSE IF IsSpace(s[1])
         THEN SplitAcc(Tail(s), <<>>, IF Len(cur) > 0 THEN Append(acc, cur) ELSE acc)
         ELSE SplitAcc(Tail(s), Append(cur, s[1]), acc)

Split(s) == SplitAcc(s, <<>>, <<>>)

\* s.split(c, 1)[1]: the text right of the first occurrence of c
RECURSIVE AfterFirst(_, _)
AfterFirst(s, c) ==
    IF Len(s) = 0 THEN <<>>
    ELSE IF s[1] = c THEN Tail(s)
    ELSE AfterFirst(Tail(s), c)

\* str.replace(c, '', 1): the first occurrence of c removed
RemoveFirst(s, c) ==
    IF HasChar(s, c) THEN BeforeFirst(s, c) \o AfterFirst(s, c) ELSE s

Digits == {"0", "1", "2", "3", "4", "5", "6", "7", "8", "9"}

DigitVal(c) ==
    CASE c = "0" -> 0 [] c = "1" -> 1 [] c = "2" -> 2 [] c = "3" -> 3
      [] c = "4" -> 4 [] c = "5" -> 5 [] c = "6" -> 6 [] c = "7" -> 7
      [] c = "8" -> 8 [] c = "9" -> 9

AllDigits(s) == \A i \in 1..Len(s) : s[i] \in Digits

\* str.isdigit(): non-empty and every character a digit
IsDigit(s) == Len(s) > 0 /\ AllDigits(s)

RECURSIVE DigitsVal(_)
DigitsVal(s) ==
    IF Len(s) = 0 THEN 0
    ELSE 10 * DigitsVal(SubSeq(s, 1, Len(s) - 1)) + DigitVal(s[Len(s)])

(***************************************************************************)
(* Python float values: a finite value n/d (in lowest terms), a finite     *)
(* value "big" beyond 10^5 (above every price limit of the model), inf,    *)
(* or nan.                                                                 *)
(***************************************************************************)
Rat(n, d) == [k |-> "num", n |-> n \div Gcd(n, d), d |-> d \div Gcd(n, d)]
Zero == Rat(0, 1)
FNan == [k |-> "nan"]
FInf == [k |-> "inf"]
FBig == [k |-> "big"]

\* a decimal mantissa n/d scaled by 10^e
Scaled(n, d, e) ==
    IF n = 0 THEN Zero
    ELSE IF e > 308 THEN FInf
    ELSE IF e > 4 THEN FBig
    ELSE Rat(n * Pow10(e), d)

\* float(s) for a text without sign characters: [ok |-> FALSE] stands for
\* ValueError. Accepted: nan, inf, infinity in any case; digits with at
\* most one point and at least one digit; the same followed by e and a
\* non-empty run of digits. Surrounding whitespace is ignored.
PyFloat(s) ==
    LET t == Lower(Strip(s))
        hasE == HasChar(t, "e")
        mant == BeforeFirst(t, "e")
        expo == AfterFirst(t, "e")
        ip == BeforeFirst(mant, ".")
        fp == IF HasChar(mant, ".") THEN AfterFirst(mant, ".") ELSE <<>>
    IN  IF t = <<"n", "a", "n">> THEN [ok |-> TRUE, v |-> FNan]
        ELSE IF t = <<"i", "n", "f">>
                \/ t = <<"i", "n", "f", "i", "n", "i", "t", "y">>
        THEN [ok |-> TRUE, v |-> FInf]
        ELSE IF /\ AllDigits(ip) /\ AllDigits(fp) /\ Len(ip) + Len(fp) > 0
                /\ hasE => IsDigit(expo)
        THEN [ok |-> TRUE,
              v |-> Scaled(DigitsVal(ip \o fp), Pow10(Len(fp)),
                           IF hasE THEN DigitsVal(expo) ELSE 0)]
        ELSE [ok |-> FALSE]

(***************************************************************************)
(* A cell of the dataset is a text or missing (pandas NaN).                *)
(***************************************************************************)
NaN == [t |-> "nan"]
Text(s) == [t |-> "str", s |-> s]

\* str(value): the text itself; 'nan' for a missing cell
PyStr(cell) == IF cell.t = "nan" THEN <<"n", "a", "n">> ELSE cell.s

\* a variant of the cleaning that takes the upper bound of a range
CleanPriceUpper(s) ==
    LET c == Strip(RemoveChar(RemoveChar(RemoveChar(s, "₹"), ","), "~"))
    IN  IF HasChar(c, "-") THEN Strip(AfterFirst(c, "-")) ELSE c

\* the cleaning shared by both price parsers: currency symbol, commas and
\* tildes removed, whitespace stripped, then the text left of the first '-'
CleanPrice(s) ==
    LET c == Strip(RemoveChar(RemoveChar(RemoveChar(s, "₹"), ","), "~"))
    IN  IF HasChar(c, "-") THEN Strip(BeforeFirst(c, "-")) ELSE c

\* KeywordSearchEngine.search.parse_price
parse_price(price_str) ==
    LET c == CleanPrice(PyStr(price_str))
    IN  IF Len(c) > 0 /\ c # <<"n", "a", "n">>
        THEN IF PyFloat(c).ok THEN PyFloat(c).v ELSE Zero
        ELSE Zero

\* render_details_panel: the price shown in the details panel
metric_price(raw_price) ==
    IF raw_price.t = "nan" THEN FNan
    ELSE LET c == CleanPrice(raw_price.s)
         IN  IF IsDigit(RemoveFirst(c, ".")) THEN PyFloat(c).v ELSE Zero

\* a variant of the price test without the 10% buffer
WithinBudgetNoBuffer(p, max_price) ==
    p.k = "num" /\ p.n <= max_price * p.d

\* parsed_price <= max_price * 1.1 (nan and inf compare False)
WithinBudget(p, max_price) ==
    p.k = "num" /\ p.n * 10 <= max_price * 11 * p.d

(***************************************************************************)
(* Exact arithmetic on the finite values (weights and scores).             *)
(***************************************************************************)
RatAdd(a, b) == Rat(a.n * b.d + b.n * a.d, a.d * b.d)
RatTimes(a, m) == Rat(a.n * m, a.d)
RatLess(a, b) == a.n * b.d < b.n * a.d

(***************************************************************************)
(* Program constants of KeywordSearchEngine.search.                        *)
(***************************************************************************)
WeightScale == 100
NameBonus == 10
DeveloperBonus == 5
LocationBonus == 3
DefaultLimit == 20

(***************************************************************************)
(* Optional values of the criteria dictionary: None (or an absent key,     *)
(* which dict.get turns into None or []) or a value.                       *)
(***************************************************************************)
None == [t |-> "none"]
Some(v) == [t |-> "some", v |-> v]

\* all(part.lower() in text for part in keyword.split())
AllPartsIn(keyword, text) ==
    LET keyword_parts == Split(keyword)
    IN  \A i \in 1..Len(keyword_parts) : Contains(text, Lower(keyword_parts[i]))

\* a variant of _matches_keyword that also reads Key Amenities, as the scoring does
matches_keyword_amenities(row, keyword) ==
    LET search_text == Lower(Join(<<PyStr(row.name), PyStr(row.dev), PyStr(row.loc),
                                    PyStr(row.region), PyStr(row.nearby),
                                    PyStr(row.amen)>>))
    IN  AllPartsIn(keyword, search_text)

\* KeywordSearchEngine._matches_keyword
matches_keyword(row, keyword) ==
    LET search_text == Lower(Join(<<PyStr(row.name), PyStr(row.dev), PyStr(row.loc),
                                    PyStr(row.region), PyStr(row.nearby)>>))
    IN  AllPartsIn(keyword, search_text)

\* the number of records of the full dataset that match the keyword
MatchCount(data, kw) == Cardinality({i \in 1..Len(data) : matches_keyword(data[i], kw)})

\* weight = 100 / matches if matches > 0 else 0
Weight(data, kw) ==
    LET matches == MatchCount(data, kw)
    IN  IF matches > 0 THEN Rat(WeightScale, matches) ELSE Zero

\* a variant of the assignment that adds an entry for every occurrence of a key
DictAppend(d, key, val) == Append(d, [kw |-> key, weight |-> val])

\* keyword_weights[kw] = weight on an insertion-ordered dict: a key that is
\* already present keeps its position and takes the new value
DictSet(d, key, val) ==
    IF \E i \in 1..Len(d) : d[i].kw = key
    THEN [i \in 1..Len(d) |-> IF d[i].kw = key THEN [kw |-> key, weight |-> val] ELSE d[i]]
    ELSE Append(d, [kw |-> key, weight |-> val])

\* the loop over keywords that fills keyword_weights
RECURSIVE WeightsLoop(_, _, _)
WeightsLoop(data, keywords, d) ==
    IF Len(keywords) = 0 THEN d
    ELSE WeightsLoop(data, Tail(keywords),
                     DictSet(d, keywords[1], Weight(data, keywords[1])))

KeywordWeights(data, keywords) == WeightsLoop(data, keywords, <<>>)

\* a variant of the tiers without `continue`: every matching tier adds its bonus
TierBonusNoContinue(row, kw) ==
    (IF AllPartsIn(kw, Lower(PyStr(row.name))) THEN NameBonus ELSE 0)
    + (IF AllPartsIn(kw, Lower(PyStr(row.dev))) THEN DeveloperBonus ELSE 0)
    + (IF AllPartsIn(kw, Lower(PyStr(row.loc))) THEN LocationBonus ELSE 0)
    + (IF AllPartsIn(kw, Lower(Join(<<PyStr(row.region), PyStr(row.nearby),
                                      PyStr(row.amen)>>))) THEN 1 ELSE 0)

\* the bonus of the first tier of calculate_score that matches, 0 if none
TierBonus(row, kw) ==
    IF AllPartsIn(kw, Lower(PyStr(row.name))) THEN NameBonus
    ELSE IF AllPartsIn(kw, Lower(PyStr(row.dev))) THEN DeveloperBonus
    ELSE IF AllPartsIn(kw, Lower(PyStr(row.loc))) THEN LocationBonus
    ELSE IF AllPartsIn(kw, Lower(Join(<<PyStr(row.region), PyStr(row.nearby),
                                        PyStr(row.amen)>>))) THEN 1
    ELSE 0

\* KeywordSearchEngine.search.calculate_score: the loop over keyword_weights
RECURSIVE ScoreLoop(_, _, _)
ScoreLoop(row, weights, acc) ==
    IF Len(weights) = 0 THEN acc
    ELSE LET e == weights[1]
             b == TierBonus(row, e.kw)
         IN  ScoreLoop(row, Tail(weights),
                 IF b > 0
                 THEN [score |-> RatAdd(acc.score, RatTimes(e.weight, b)),
                       matched_terms |-> Append(acc.matched_terms, e.kw)]
                 ELSE acc)

calculate_score(row, weights) ==
    ScoreLoop(row, weights, [score |-> Zero, matched_terms |-> <<>>])

(***************************************************************************)
(* The working copy of the dataset: one row per record, named by its       *)
(* position in the dataset (the pandas index label), with the columns the  *)
(* search adds. A column that was not added is Absent.                     *)
(***************************************************************************)
Absent == [k |-> "absent"]

\* filtered = self.df.copy()
Copy(data) ==
    [i \in 1..Len(data) |->
        [idx |-> i, parsed_price |-> Absent, search_score |-> Absent,
         matched_terms |-> <<>>]]

\* a variant of the test of the price filter without its `> 0`
PriceFilterTruthy(max_price) == max_price.t = "some" /\ max_price.v # 0

\* criteria.get('max_price') and criteria['max_price'] > 0
PriceFilterOn(max_price) == max_price.t = "some" /\ max_price.v # 0 /\ max_price.v > 0

\* stage 1: the parsed_price column and the rows within max_price * 1.1
PriceFilter(data, max_price) ==
    IF PriceFilterOn(max_price)
    THEN SelectSeq([i \in 1..Len(data) |->
                       [Copy(data)[i] EXCEPT !.parsed_price = parse_price(data[i].price)]],
                   LAMBDA r : WithinBudget(r.parsed_price, max_price.v))
    ELSE Copy(data)

\* a variant of the keyword test that takes an empty list as keywords
KeywordsNotNone(keywords) == keywords.t = "some"

\* keywords and len(keywords) > 0
KeywordsGiven(keywords) == keywords.t = "some" /\ Len(keywords.v) > 0

\* stage 2B: the search_score and matched_terms columns
Scored(data, rows, weights) ==
    [i \in 1..Len(rows) |->
        LET results == calculate_score(data[rows[i].idx], weights)
        IN  [rows[i] EXCEPT !.search_score = results.score,
                            !.matched_terms = results.matched_terms]]

\* a variant of stage 2C that drops nothing
KeepAll(rows) == rows

\* stage 2C: filtered[filtered['search_score'] > 0]
Positive(rows) == SelectSeq(rows, LAMBDA r : RatLess(Zero, r.search_score))

\* the orders of the rows
Orders(rows) ==
    {[i \in 1..Len(rows) |-> rows[p[i]]] :
        p \in {q \in [1..Len(rows) -> 1..Len(rows)] :
                  \A i, j \in 1..Len(rows) : i # j => q[i] # q[j]}}

\* sort_values('search_score', ascending=False) with the default
\* kind='quicksort', which is not a stable sort: every order of the rows
\* with non-increasing scores is a possible outcome
SortOutcomes(rows) ==
    {s \in Orders(rows) :
        \A i, j \in 1..Len(s) : i < j => ~RatLess(s[i].search_score, s[j].search_score)}

\* a variant of head that takes the last n rows
LastRows(rows, n) == SubSeq(rows, Len(rows) - Min(n, Len(rows)) + 1, Len(rows))

\* DataFrame.head(n) for n >= 0
Head_(rows, n) == SubSeq(rows, 1, Min(n, Len(rows)))

(***************************************************************************)
(* The texts of the model.                                                 *)
(***************************************************************************)
T_SoDi == Text(<<"S", "o", " ", "D", "i">>)
T_So == Text(<<"S", "o">>)
T_so == Text(<<"s", "o">>)
T_Wh == Text(<<"W", "h">>)
T_wh == Text(<<"w", "h">>)
T_El == Text(<<"E", "l">>)
T_Pr == Text(<<"P", "r">>)
T_Po == Text(<<"P", "o">>)
T_Whpo == Text(<<"W", "h", " ", "p", "o">>)
T_Whso == Text(<<"W", "h", " ", "s", "o">>)
P_11000 == Text(<<"1", "1", "0", "0", "0">>)
P_11001 == Text(<<"1", "1", "0", "0", "1">>)
P_Range == Text(<<"4", "5", "0", "0", "-", "5", "0", "0", "0">>)
P_Rupee == Text(<<"₹", "4", ",", "5", "0", "0">>)

Record(name, dev, loc, region, nearby, amen, price) ==
    [name |-> name, dev |-> dev, loc |-> loc, region |-> region,
     nearby |-> nearby, amen |-> amen, price |-> price]

\* the records a dataset of the model is made of
Catalogue ==
    { Record(T_SoDi, T_So, T_Wh, NaN, NaN, NaN, P_11000),
      Record(NaN, T_So, T_El, NaN, NaN, NaN, P_11001),
      Record(T_Pr, NaN, T_Whso, NaN, NaN, NaN, NaN),
      Record(NaN, T_so, NaN, T_wh, NaN, T_Po, P_Range),
      Record(NaN, NaN, NaN, T_So, T_Whpo, NaN, P_Rupee) }

\* the keywords of the model's criteria
Keywords ==
    { <<"S", "o">>, <<"p", "o">>, <<"s", "o", " ", "W", "h">> }

SeqsUpTo(S, n) == UNION {[1..k -> S] : k \in 0..n}

Datasets == SeqsUpTo(Catalogue, MaxRecords)
KeywordLists == {None} \cup {Some(l) : l \in SeqsUpTo(Keywords, MaxKeywords)}
MaxPrices == {None, Some(0), Some(10000)}
Limits == 0..MaxLimit \cup {DefaultLimit}

\* the characters of the raw price texts
PriceChars == {"1", "5", ".", "-", ",", " ", "₹", "~", "n", "a", "N", "e"}

P_OnRequest == Text(<<"o", "n", " ", "r", "e", "q", "u", "e", "s", "t">>)
P_Inf == Text(<<"i", "n", "f">>)

\* pd.read_excel loads a cell holding one of its default NA texts as missing
NaTexts == {<<>>, <<"n", "a", "n">>, <<"N", "a", "N">>}

\* the raw values of the price column: missing, or a text
RawPrices ==
    {NaN} \cup {Text(s) : s \in SeqsUpTo(PriceChars, MaxPriceLen) \ NaTexts}
          \cup {P_11000, P_11001, P_Range, P_Rupee, P_OnRequest, P_Inf}

PriceDatasets == {<<Record(T_SoDi, T_So, T_Wh, NaN, NaN, NaN, p)>> : p \in RawPrices}
PriceLimits == {Some(1), Some(10), Some(10000)}

(***************************************************************************)
(* JSON values of the criteria: null (None), a number, a text, a list, an  *)
(* object. An object (a Python dict) is the sequence of its items in       *)
(* insertion order.                                                        *)
(***************************************************************************)
JNum(n) == [t |-> "num", v |-> n]
JStr(s) == [t |-> "str", v |-> s]
JList(l) == [t |-> "list", v |-> l]
JDict(items) == [t |-> "dict", v |-> items]
Item(k, v) == [k |-> k, v |-> v]

\* k in current
HasKey(current, k) == \E i \in 1..Len(current) : current[i].k = k

\* current[k]
ValueOf(current, k) == current[CHOOSE i \in 1..Len(current) : current[i].k = k].v

\* del current[k]
DelItem(current, k) == SelectSeq(current, LAMBDA e : e.k # k)

\* current[k] = v
SetItem(current, k, v) ==
    IF HasKey(current, k)
    THEN [i \in 1..Len(current) |-> IF current[i].k = k THEN Item(k, v) ELSE current[i]]
    ELSE Append(current, Item(k, v))

\* criteria.get('keywords', []): the list, [] for an absent key, None for null
GetKeywords(c) ==
    IF HasKey(c, "keywords")
    THEN (IF ValueOf(c, "keywords").t = "list" THEN Some(ValueOf(c, "keywords").v) ELSE None)
    ELSE Some(<<>>)

\* criteria.get('max_price'): the number, None for an absent key or null
GetMaxPrice(c) ==
    IF HasKey(c, "max_price") /\ ValueOf(c, "max_price").t = "num"
    THEN Some(ValueOf(c, "max_price").v)
    ELSE None

(***************************************************************************)
(* ProfileManager (src/src/core/profile_manager.py). self.data["users"] is *)
(* a function from the user ids it holds to the users; a user holds its    *)
(* profile, the list of its funnels and active_funnel_id. The uuid4 of a   *)
(* funnel is a number never used before, None is NoId. The timestamps      *)
(* joined_at and created_at have no value in the model; of updated_at the  *)
(* model keeps whether the funnel has it.                                  *)
(***************************************************************************)
NoId == 0
Managers == {"m1", "m2"}
UserIds == {"user_001", "user_002"}

\* {"users": {}}
NoUsers == [u \in {} |-> None]

\* the user that get_or_create_user stores
NewUser(name) ==
    [profile |-> [name |-> name], funnels |-> <<>>, active_funnel_id |-> NoId]

\* the funnel that create_funnel builds
NewFunnel(funnel_id, funnel_name) ==
    [id |-> funnel_id, name |-> funnel_name, criteria |-> <<>>,
     status |-> "active", updated |-> FALSE]

\* the position in the list of the first funnel of that id, 0 if there is none
FunnelIndex(funnels, funnel_id) ==
    IF \E i \in 1..Len(funnels) : funnels[i].id = funnel_id
    THEN CHOOSE i \in 1..Len(funnels) :
            /\ funnels[i].id = funnel_id
            /\ \A j \in 1..(i - 1) : funnels[j].id # funnel_id
    ELSE 0

\* what a call hands back: nothing, the user, the funnel object at a
\* position of the user's list, or an exception
UserRef(user_id) == [t |-> "user", user_id |-> user_id]
FunnelRef(user_id, i) == [t |-> "funnel", user_id |-> user_id, i |-> i]
Raised == [t |-> "raise"]

\* the outcome of the part of a call behind get_or_create_user: self.data
\* after it, whether _save_data ran, the value handed back, and whether a
\* uuid was drawn
Outcome(users, save, ret, fresh) ==
    [users |-> users, save |-> save, ret |-> ret, fresh |-> fresh]

\* self.data["users"][user_id] = {...} of get_or_create_user
AddUser(users, user_id, name) ==
    [u \in DOMAIN users \cup {user_id} |->
        IF u = user_id THEN NewUser(name) ELSE users[u]]

\* get_or_create_user for a user that exists
get_or_create_user(users, user_id) ==
    Outcome(users, FALSE, UserRef(user_id), FALSE)

\* create_funnel behind its call of get_or_create_user
create_funnel(users, user_id, funnel_id, funnel_name) ==
    Outcome([users EXCEPT ![user_id] =
                [@ EXCEPT !.funnels = Append(@, NewFunnel(funnel_id, funnel_name)),
                          !.active_funnel_id = funnel_id]],
            TRUE, FunnelRef(user_id, Len(users[user_id].funnels) + 1), TRUE)

\* a variant of the lookup of get_active_funnel that takes the first funnel
FirstFunnel(funnels, funnel_id) == IF Len(funnels) > 0 THEN 1 ELSE 0

\* the funnel whose id is active_funnel_id, as the loop of get_active_funnel
\* finds it
ActiveIndex(funnels, funnel_id) == FunnelIndex(funnels, funnel_id)

\* get_active_funnel behind its call of get_or_create_user
get_active_funnel(users, user_id, funnel_id) ==
    LET user == users[user_id]
        i == ActiveIndex(user.funnels, user.active_funnel_id)
    IN  IF user.active_funnel_id = NoId THEN create_funnel(users, user_id, funnel_id, "New Search")
        ELSE IF i # 0 THEN Outcome(users, FALSE, FunnelRef(user_id, i), FALSE)
        ELSE create_funnel(users, user_id, funnel_id, "New Search")

\* a variant of the merge that stores a null like any other value (dict.update)
MergeItemKeepNull(current, k, v) == SetItem(current, k, v)

\* one turn of the loop over new_criteria.items()
MergeItem(current, k, v) ==
    IF v = None
    THEN (IF HasKey(current, k) THEN DelItem(current, k) ELSE current)
    ELSE SetItem(current, k, v)

RECURSIVE MergeLoop(_, _)
MergeLoop(current, items) ==
    IF Len(items) = 0 THEN current
    ELSE MergeLoop(MergeItem(current, items[1].k, items[1].v), Tail(items))

\* a variant of `return None` that rewrites the document first
NotFoundSaved(users) == Outcome(users, TRUE, None, FALSE)

\* return None of update_funnel_criteria: no user of that id, or no funnel
\* of that id among the user's
NotFound(users) == Outcome(users, FALSE, None, FALSE)

\* update_funnel_criteria; new_criteria.items() raises on a value that is
\* no dict
update_funnel_criteria(users, user_id, funnel_id, new_criteria) ==
    IF user_id \notin DOMAIN users THEN NotFound(users)
    ELSE LET i == FunnelIndex(users[user_id].funnels, funnel_id)
         IN  IF i = 0 THEN NotFound(users)
             ELSE IF new_criteria.t # "dict" THEN Outcome(users, FALSE, Raised, FALSE)
             ELSE Outcome([users EXCEPT ![user_id].funnels[i] =
                              [@ EXCEPT !.criteria = MergeLoop(@, new_criteria.v),
                                        !.updated = TRUE]],
                          TRUE, FunnelRef(user_id, i), FALSE)

\* switch_funnel
switch_funnel(users, user_id, funnel_id) ==
    IF user_id \in DOMAIN users
    THEN Outcome([users EXCEPT ![user_id].active_funnel_id = funnel_id], TRUE, None, FALSE)
    ELSE Outcome(users, FALSE, None, FALSE)

\* the methods that begin with get_or_create_user
UserOps == {"get_or_create_user", "create_funnel", "get_active_funnel"}

\* the methods that may draw a uuid
FunnelOps == {"create_funnel", "get_active_funnel"}

\* the part of a call behind get_or_create_user
Proceed(op, users, user_id, funnel_id, new_criteria, fresh_id) ==
    CASE op = "get_or_create_user" -> get_or_create_user(users, user_id)
      [] op = "create_funnel" -> create_funnel(users, user_id, fresh_id, "New Search")
      [] op = "get_active_funnel" -> get_active_funnel(users, user_id, fresh_id)
      [] op = "update_funnel_criteria" ->
            update_funnel_criteria(users, user_id, funnel_id, new_criteria)
      [] op = "switch_funnel" -> switch_funnel(users, user_id, funnel_id)

(***************************************************************************)
(* The backing document data/profiles.json: missing, or a text. open(path, *)
(* 'w') empties the text and json.dump then writes from the start of the   *)
(* file; a text that another instance wrote in between stays behind the    *)
(* end of a shorter one, and the document is then no JSON text. The length *)
(* of a text is counted in the lines json.dump(indent=4) writes.           *)
(***************************************************************************)
ValueLines(v) == IF v.t = "list" /\ Len(v.v) > 0 THEN Len(v.v) + 2 ELSE 1

CriteriaLines(c) ==
    LET n[i \in 0..Len(c)] == IF i = 0 THEN 0 ELSE n[i - 1] + ValueLines(c[i].v)
    IN  IF Len(c) = 0 THEN 1 ELSE 2 + n[Len(c)]

FunnelLines(f) == 6 + CriteriaLines(f.criteria) + (IF f.updated THEN 1 ELSE 0)

UserLines(user) ==
    LET n[i \in 0..Len(user.funnels)] ==
            IF i = 0 THEN 0 ELSE n[i - 1] + FunnelLines(user.funnels[i])
    IN  7 + (IF Len(user.funnels) = 0 THEN 1 ELSE 2 + n[Len(user.funnels)])

RECURSIVE UsersLines(_, _)
UsersLines(users, ids) ==
    IF ids = {} THEN 0
    ELSE LET u == CHOOSE x \in ids : TRUE
         IN  UserLines(users[u]) + UsersLines(users, ids \ {u})

Lines(users) == IF DOMAIN users = {} THEN 3 ELSE 4 + UsersLines(users, DOMAIN users)

Missing == [k |-> "missing", users |-> NoUsers, lines |-> 0]
Emptied == [k |-> "empty", users |-> NoUsers, lines |-> 0]
Json(users) == [k |-> "json", users |-> users, lines |-> Lines(users)]
Torn(lines) == [k |-> "torn", users |-> NoUsers, lines |-> lines]

\* json.dump(self.data, f, indent=4) into the file as it is now
Written(doc, users) == IF doc.lines > Lines(users) THEN Torn(doc.lines) ELSE Json(users)

\* _load_data: {"users": {}} for a missing file and for a text that is no JSON
Loaded(doc) == IF doc.k = "json" THEN doc.users ELSE NoUsers

(***************************************************************************)
(* The arguments of the profile store, the answers of the extractor and    *)
(* the callers of search.                                                  *)
(***************************************************************************)
\* the ids a caller names: None and the uuids that can have been drawn
FunnelIds == 0..MaxFunnels

D_Bed3Wh == <<Item("bedrooms", JNum(3)), Item("location", JStr("Whitefield"))>>
D_BedNull == <<Item("bedrooms", None)>>
D_Bed2 == <<Item("bedrooms", JNum(2))>>

\* the new_criteria of update_funnel_criteria
Deltas == {JDict(d) : d \in {D_Bed3Wh, D_BedNull, D_Bed2, <<>>}}

D_SoPrice ==
    <<Item("keywords", JList(<< <<"S", "o">> >>)), Item("max_price", JNum(10000))>>
D_Bed3NoPrice == <<Item("bedrooms", JNum(3)), Item("max_price", None)>>

\* the dicts the external model makes the extractor hand back
ChatDeltas == {D_SoPrice, D_Bed3NoPrice}

\* the dataset of the session
ChatDataset ==
    << Record(T_SoDi, T_So, T_Wh, NaN, NaN, NaN, P_11000),
       Record(NaN, T_So, T_El, NaN, NaN, NaN, P_11001) >>

\* the callers that run search side by side
Callers == {"c1", "c2"}

(***************************************************************************)
(* State of the search engine: the loaded dataset and, while a call of     *)
(* search is handing back its result (returned), the arguments of that     *)
(* call, the values of `filtered` after each of its stages, and its        *)
(* result.                                                                 *)
(* State of the profile store: self.data["users"] of every ProfileManager  *)
(* instance, the backing document, the position of every instance in the   *)
(* method it runs (mpc) with the call it serves, and the next uuid.        *)
(* State of a run of the app.py script: its position (spc) and its locals. *)
(* State of the callers that run search side by side: their calls, and the *)
(* order in which the sort of the build leaves records of equal score.     *)
(* State of a RealTimeTranscriber: its client, _is_connected and            *)
(* audio_buffer; with them the chunks the transcription client was handed, *)
(* the session of the client at the service, the audio passed to stream    *)
(* while that session was open, and the number of calls of stream.        *)
(***************************************************************************)
VARIABLES df, criteria, limit, priced, keyword_weights, scored, filtered, result,
          returned, price_metric,
          data, document, mpc, call, next_id,
          spc, active_funnel, decision, extraction, new_criteria,
          search_criteria, sales_criteria, response_text,
          calls, tie,
          client, is_connected, audio_buffer, forwarded, session, heard, arrived

callVars == <<criteria, limit, priced, keyword_weights, scored, filtered, result,
              returned>>

profileVars == <<data, document, mpc, call, next_id>>

chatVars == <<spc, active_funnel, decision, extraction, new_criteria,
              search_criteria, sales_criteria, response_text>>

callerVars == <<calls, tie>>

voiceVars == <<client, is_connected, audio_buffer, forwarded, session, heard, arrived>>

vars == <<df, criteria, limit, priced, keyword_weights, scored, filtered, result,
          returned, price_metric, data, document, mpc, call, next_id,
          spc, active_funnel, decision, extraction, new_criteria,
          search_criteria, sales_criteria, response_text, calls, tie,
          client, is_connected, audio_buffer, forwarded, session, heard, arrived>>

\* no call of a ProfileManager method
NoCall ==
    [op |-> "none", user_id |-> "", funnel_id |-> NoId, new_criteria |-> None,
     before |-> NoUsers, ret |-> None]

\* no call of search by a caller
IdleCall ==
    [pc |-> "idle", criteria |-> <<>>, limit |-> DefaultLimit, frame |-> <<>>,
     priced |-> <<>>, keyword_weights |-> <<>>, scored |-> <<>>, result |-> <<>>]

\* no call of search
InitCall ==
    /\ criteria = [keywords |-> None, max_price |-> None]
    /\ limit = DefaultLimit
    /\ priced = <<>>
    /\ keyword_weights = <<>>
    /\ scored = <<>>
    /\ filtered = <<>>
    /\ result = <<>>
    /\ returned = FALSE

\* ProfileManager.__init__ of every instance with no document yet
InitProfiles ==
    /\ data = [m \in Managers |-> NoUsers]
    /\ document = Missing
    /\ mpc = [m \in Managers |-> "idle"]
    /\ call = [m \in Managers |-> NoCall]
    /\ next_id = 1

\* the script of app.py is about to run
InitScript ==
    /\ spc = "top"
    /\ active_funnel = None
    /\ decision = "none"
    /\ extraction = "none"
    /\ new_criteria = None
    /\ search_criteria = <<>>
    /\ sales_criteria = <<>>
    /\ response_text = "none"

\* no caller is in search
InitCallers == calls = [c \in Callers |-> IdleCall]

\* RealTimeTranscriber.__init__
InitVoice ==
    /\ client = "none"
    /\ is_connected = FALSE
    /\ audio_buffer = <<>>
    /\ forwarded = <<>>
    /\ session = "none"
    /\ heard = <<>>
    /\ arrived = 0

\* KeywordSearchEngine.__init__: the dataset is loaded, nothing was searched
Init ==
    /\ df \in Datasets
    /\ InitCall
    /\ price_metric = Absent
    /\ InitProfiles
    /\ InitScript
    /\ InitCallers
    /\ InitVoice
    /\ tie = "up"

\* the body of KeywordSearchEngine.search(criteria, limit), for criteria with
\* keywords of KeywordArgs and a max_price of PriceArgs, and a limit of
\* LimitArgs. w is keyword_weights, p is `filtered` after the price filter,
\* sc after scoring and f after the drop and the sort (each computed once).
SearchBody(KeywordArgs, PriceArgs, LimitArgs) ==
    \E keywords \in KeywordArgs :
        \E w \in {IF KeywordsGiven(keywords) THEN KeywordWeights(df, keywords.v) ELSE <<>>} :
        \E max_price \in PriceArgs :
        \E p \in {PriceFilter(df, max_price)} :
        \E sc \in {IF KeywordsGiven(keywords) THEN Scored(df, p, w) ELSE p} :
        \E f \in (IF KeywordsGiven(keywords) THEN SortOutcomes(Positive(sc)) ELSE {p}) :
        \E lim \in LimitArgs :
            /\ criteria' = [keywords |-> keywords, max_price |-> max_price]
            /\ limit' = lim
            /\ priced' = p
            /\ keyword_weights' = w
            /\ scored' = sc
            /\ filtered' = f
            /\ result' = Head_(f, lim)
            /\ returned' = TRUE

\* a call of KeywordSearchEngine.search
Search(KeywordArgs, PriceArgs, LimitArgs) ==
    /\ ~returned
    /\ SearchBody(KeywordArgs, PriceArgs, LimitArgs)
    /\ UNCHANGED <<df, price_metric, profileVars, chatVars, callerVars, voiceVars>>

\* the locals of a call of search are gone
ResetCall ==
    /\ criteria' = [keywords |-> None, max_price |-> None]
    /\ limit' = DefaultLimit
    /\ priced' = <<>>
    /\ keyword_weights' = <<>>
    /\ scored' = <<>>
    /\ filtered' = <<>>
    /\ result' = <<>>
    /\ returned' = FALSE

\* the caller has taken the result
Return ==
    /\ returned
    /\ ResetCall
    /\ UNCHANGED <<df, price_metric, profileVars, chatVars, callerVars, voiceVars>>

Next ==
    \/ Search(KeywordLists, MaxPrices, Limits)
    \/ Return

Spec == Init /\ [][Next]_vars

(***************************************************************************)
(* The price parsers on their own: a dataset of one record whose raw price *)
(* is any text of the price characters up to MaxPriceLen (or missing),     *)
(* searched without keywords under a price limit, and shown in the         *)
(* details panel.                                                          *)
(***************************************************************************)
InitPrice ==
    /\ df \in PriceDatasets
    /\ InitCall
    /\ price_metric = Absent
    /\ InitProfiles
    /\ InitScript
    /\ InitCallers
    /\ InitVoice
    /\ tie = "up"

\* render_details_panel(row): the Price/SqFt metric of the selected record
RenderDetails(i) ==
    /\ ~returned
    /\ price_metric' = metric_price(df[i].price)
    /\ UNCHANGED <<df, callVars, profileVars, chatVars, callerVars, voiceVars>>

NextPrice ==
    \/ Search({None}, PriceLimits, {DefaultLimit})
    \/ Return
    \/ \E i \in 1..Len(df) : RenderDetails(i)

SpecPrice == InitPrice /\ [][NextPrice]_vars

(***************************************************************************)
(* Search by keyword lists of up to MaxKeywords + 1 keywords, with         *)
(* repeated keywords and with a keyword that the text 'nan' holds, without *)
(* a price limit.                                                          *)
(***************************************************************************)
Words == { <<"n", "a">>, <<"S", "o">>, <<"p", "o">> }

WordLists == {Some(l) : l \in SeqsUpTo(Words, MaxKeywords + 1)}

NextWords ==
    \/ Search(WordLists, {None}, {DefaultLimit})
    \/ Return

SpecWords == Init /\ [][NextWords]_vars

(***************************************************************************)
(* The profile store. A method of an instance runs in steps that begin at  *)
(* its accesses to the document: what it does to self.data up to           *)
(* open(path, 'w') of _save_data is one step with the open, json.dump is   *)
(* the next. An instance runs one method at a time; the instances run side *)
(* by side.                                                                *)
(***************************************************************************)
\* the rest of a method behind get_or_create_user, up to the open of its
\* _save_data or, if it does not save, to its return
Continue(m, c) ==
    \E out \in {Proceed(c.op, data[m], c.user_id, c.funnel_id, c.new_criteria, next_id)} :
        /\ data' = [data EXCEPT ![m] = out.users]
        /\ document' = IF out.save THEN Emptied ELSE document
        /\ mpc' = [mpc EXCEPT ![m] = IF out.save THEN "write" ELSE "done"]
        /\ call' = [call EXCEPT ![m] = [c EXCEPT !.ret = out.ret]]
        /\ next_id' = IF out.fresh THEN next_id + 1 ELSE next_id

\* a method begins: get_or_create_user stores a user it does not have and
\* opens the document, otherwise the method goes on
Invoke(m, op, user_id, funnel_id, criteria_arg, name) ==
    \E c \in {[op |-> op, user_id |-> user_id, funnel_id |-> funnel_id,
               new_criteria |-> criteria_arg, before |-> data[m], ret |-> None]} :
        IF op \in UserOps /\ user_id \notin DOMAIN data[m]
        THEN /\ data' = [data EXCEPT ![m] = AddUser(@, user_id, name)]
             /\ document' = Emptied
             /\ mpc' = [mpc EXCEPT ![m] = "user_write"]
             /\ call' = [call EXCEPT ![m] = c]
             /\ UNCHANGED next_id
        ELSE Continue(m, c)

\* the uuids that methods in progress are still to draw
Drawing ==
    Cardinality({m \in Managers : mpc[m] \in {"user_write", "body"}
                                  /\ call[m].op \in FunnelOps})

\* the method would draw a uuid
Draws(m, op, user_id) ==
    /\ op \in FunnelOps
    /\ \/ user_id \notin DOMAIN data[m]
       \/ Proceed(op, data[m], user_id, NoId, None, next_id).fresh

\* an instance is called
Call(m, op, user_id, funnel_id, criteria_arg) ==
    /\ mpc[m] = "idle"
    /\ Draws(m, op, user_id) => next_id + Drawing <= MaxFunnels
    /\ Invoke(m, op, user_id, funnel_id, criteria_arg, "Guest")
    /\ UNCHANGED <<df, price_metric, callVars, chatVars, callerVars, voiceVars>>

\* json.dump of _save_data, and the with block closes the file
Write(m) ==
    /\ mpc[m] \in {"user_write", "write"}
    /\ document' = Written(document, data[m])
    /\ mpc' = [mpc EXCEPT ![m] = IF @ = "user_write" THEN "body" ELSE "done"]
    /\ UNCHANGED <<data, call, next_id>>
    /\ UNCHANGED <<df, price_metric, callVars, chatVars, callerVars, voiceVars>>

\* get_or_create_user has stored and saved the user: the method goes on
Body(m) ==
    /\ mpc[m] = "body"
    /\ Continue(m, call[m])
    /\ UNCHANGED <<df, price_metric, callVars, chatVars, callerVars, voiceVars>>

\* the caller of the method has taken what it handed back
Taken(m) ==
    /\ mpc' = [mpc EXCEPT ![m] = "idle"]
    /\ call' = [call EXCEPT ![m] = NoCall]
    /\ UNCHANGED <<data, document, next_id>>

ManagerReturn(m) ==
    /\ mpc[m] = "done"
    /\ Taken(m)
    /\ UNCHANGED <<df, price_metric, callVars, chatVars, callerVars, voiceVars>>

\* ProfileManager.__init__: a new instance takes the place of an idle one
Load(m) ==
    /\ mpc[m] = "idle"
    /\ data' = [data EXCEPT ![m] = Loaded(document)]
    /\ UNCHANGED <<document, mpc, call, next_id>>
    /\ UNCHANGED <<df, price_metric, callVars, chatVars, callerVars, voiceVars>>

\* the dataset is of no concern to the profile store
InitStore ==
    /\ df = <<>>
    /\ InitCall
    /\ price_metric = Absent
    /\ InitProfiles
    /\ InitScript
    /\ InitCallers
    /\ InitVoice
    /\ tie = "up"

\* the methods called with every argument of the model
Calls(Ms, Us, Fs, Ds) ==
    \E m \in Ms, user_id \in Us :
        \/ Call(m, "get_or_create_user", user_id, NoId, None)
        \/ Call(m, "create_funnel", user_id, NoId, None)
        \/ Call(m, "get_active_funnel", user_id, NoId, None)
        \/ \E funnel_id \in Fs, d \in Ds :
              Call(m, "update_funnel_criteria", user_id, funnel_id, d)
        \/ \E funnel_id \in Fs : Call(m, "switch_funnel", user_id, funnel_id, None)

\* one instance, called by one caller: for the first user with every new
\* criteria of Deltas, for the second with one
NextProfile ==
    \/ Calls({"m1"}, {"user_001"}, FunnelIds, Deltas)
    \/ Calls({"m1"}, UserIds \ {"user_001"}, FunnelIds, {JDict(D_Bed3Wh)})
    \/ Write("m1")
    \/ Body("m1")
    \/ ManagerReturn("m1")

SpecProfile == InitStore /\ [][NextProfile]_vars

\* two instances on the same document
NextStore ==
    \/ Calls(Managers, {"user_001"}, FunnelIds, {JDict(D_Bed3Wh)})
    \/ \E m \in Managers : Write(m)
    \/ \E m \in Managers : Body(m)
    \/ \E m \in Managers : ManagerReturn(m)
    \/ \E m \in Managers : Load(m)

SpecStore == InitStore /\ [][NextStore]_vars

(***************************************************************************)
(* A session of app.py: the script runs from the top on every interaction  *)
(* (lines 303-304), then waits for the sidebar button or a chat message    *)
(* and runs the pipeline of lines 376-385 on the message. The orchestrator *)
(* and the extractor answer as the external model makes them.              *)
(***************************************************************************)
Session == "m1"
ChatUser == "user_001"

\* the funnel object that a reference names
Deref(users, ref) == users[ref.user_id].funnels[ref.i]

\* the manager of the session is not inside a method
Ready == mpc[Session] \in {"idle", "done"}

\* user = get_or_create_user(user_id, "Client")
ScriptTop ==
    /\ spc = "top"
    /\ Ready
    /\ Invoke(Session, "get_or_create_user", ChatUser, NoId, None, "Client")
    /\ spc' = "user"
    /\ UNCHANGED <<active_funnel, decision, extraction, new_criteria,
                   search_criteria, sales_criteria, response_text>>
    /\ UNCHANGED <<df, price_metric, callVars, callerVars, voiceVars>>

\* active_funnel = get_active_funnel(user_id), called
ScriptActive ==
    /\ spc = "user"
    /\ mpc[Session] = "done"
    /\ Draws(Session, "get_active_funnel", ChatUser) => next_id <= MaxFunnels
    /\ Invoke(Session, "get_active_funnel", ChatUser, NoId, None, "Guest")
    /\ spc' = "active"
    /\ UNCHANGED <<active_funnel, decision, extraction, new_criteria,
                   search_criteria, sales_criteria, response_text>>
    /\ UNCHANGED <<df, price_metric, callVars, callerVars, voiceVars>>

\* active_funnel is assigned, the page is drawn and the script waits
ScriptWait ==
    /\ spc = "active"
    /\ mpc[Session] = "done"
    /\ active_funnel' = call[Session].ret
    /\ spc' = "wait"
    /\ UNCHANGED <<decision, extraction, new_criteria, search_criteria,
                   sales_criteria, response_text>>
    /\ UNCHANGED <<df, price_metric, callVars, profileVars, callerVars, voiceVars>>

\* the sidebar button Start New Search
SidebarNewSearch ==
    /\ spc = "wait"
    /\ next_id <= MaxFunnels
    /\ Invoke(Session, "create_funnel", ChatUser, NoId, None, "Guest")
    /\ spc' = "sidebar"
    /\ UNCHANGED <<active_funnel, decision, extraction, new_criteria,
                   search_criteria, sales_criteria, response_text>>
    /\ UNCHANGED <<df, price_metric, callVars, callerVars, voiceVars>>

\* what decide_action hands back: a dict that says NEW, a dict that does not
\* (also after an exception), or a JSON value that is no dict
Decisions == {"NEW", "UPDATE", "not_dict"}

\* decision = decide_action(prompt, active_funnel); decision.get("action")
\* raises on a value that is no dict; on NEW create_funnel is called
Decide(d) ==
    /\ spc = "wait"
    /\ decision' = d
    /\ CASE d = "NEW" ->
              /\ next_id <= MaxFunnels
              /\ Invoke(Session, "create_funnel", ChatUser, NoId, None, "Guest")
              /\ spc' = "new"
         [] d = "UPDATE" ->
              /\ spc' = "extract"
              /\ UNCHANGED profileVars
         [] d = "not_dict" ->
              /\ spc' = "aborted"
              /\ UNCHANGED profileVars
    /\ UNCHANGED <<active_funnel, extraction, new_criteria, search_criteria,
                   sales_criteria, response_text>>
    /\ UNCHANGED <<df, price_metric, callVars, callerVars, voiceVars>>

\* active_funnel = create_funnel(...) is assigned; active_funnel['criteria'] = {}
Reset ==
    /\ spc = "new"
    /\ mpc[Session] = "done"
    /\ \E ref \in {call[Session].ret} :
          /\ active_funnel' = ref
          /\ data' = [data EXCEPT ![Session][ref.user_id].funnels[ref.i].criteria = <<>>]
    /\ spc' = "extract"
    /\ UNCHANGED <<document, mpc, call, next_id>>
    /\ UNCHANGED <<decision, extraction, new_criteria, search_criteria,
                   sales_criteria, response_text>>
    /\ UNCHANGED <<df, price_metric, callVars, callerVars, voiceVars>>

\* what SimpleExtractor.extract hands back: the dict of the response, {}
\* when the model call raises or the response is no JSON text, and the value
\* of a response that is a JSON text but no object
Extractions ==
    {[kind |-> "object", value |-> JDict(d)] : d \in ChatDeltas}
    \cup {[kind |-> "error", value |-> JDict(<<>>)],
          [kind |-> "not_json", value |-> JDict(<<>>)],
          [kind |-> "not_object", value |-> None],
          [kind |-> "not_object", value |-> JList(<<>>)]}

\* the source of what the pipeline passes on as criteria
PassedDelta(funnel, delta) == IF delta.t = "dict" THEN delta.v ELSE <<>>

\* active_funnel['criteria']
PassedCriteria(funnel, delta) == funnel.criteria

\* new_criteria = extract(prompt); update_funnel_criteria(user_id,
\* active_funnel['id'], new_criteria) is called
Extract(e) ==
    /\ spc = "extract"
    /\ Ready
    /\ extraction' = e.kind
    /\ new_criteria' = e.value
    /\ Invoke(Session, "update_funnel_criteria", ChatUser,
              Deref(data[Session], active_funnel).id, e.value, "Guest")
    /\ spc' = IF call'[Session].ret = Raised THEN "aborted" ELSE "update"
    /\ UNCHANGED <<active_funnel, decision, search_criteria, sales_criteria,
                   response_text>>
    /\ UNCHANGED <<df, price_metric, callVars, callerVars, voiceVars>>

\* matches = search(active_funnel['criteria'])
SearchStep ==
    /\ spc = "update"
    /\ mpc[Session] = "done"
    /\ \E c \in {PassedCriteria(Deref(data[Session], active_funnel), new_criteria)} :
          /\ search_criteria' = c
          /\ SearchBody({GetKeywords(c)}, {GetMaxPrice(c)}, {DefaultLimit})
    /\ spc' = "searched"
    /\ UNCHANGED <<active_funnel, decision, extraction, new_criteria,
                   sales_criteria, response_text>>
    /\ UNCHANGED <<df, price_metric, profileVars, callerVars, voiceVars>>

\* response_text = generate_response(active_funnel['criteria'], matches, prompt)
Respond ==
    /\ spc = "searched"
    /\ sales_criteria' = PassedCriteria(Deref(data[Session], active_funnel), new_criteria)
    /\ response_text' = IF Len(result) = 0 THEN "no_results" ELSE "pitch"
    /\ spc' = "responded"
    /\ UNCHANGED <<active_funnel, decision, extraction, new_criteria, search_criteria>>
    /\ UNCHANGED <<df, price_metric, callVars, profileVars, callerVars, voiceVars>>

\* st.rerun(), or the next interaction after an exception ended the run
Rerun ==
    /\ \/ spc \in {"responded", "aborted"}
       \/ spc = "sidebar" /\ mpc[Session] = "done"
    /\ spc' = "top"
    /\ active_funnel' = None
    /\ decision' = "none"
    /\ extraction' = "none"
    /\ new_criteria' = None
    /\ search_criteria' = <<>>
    /\ sales_criteria' = <<>>
    /\ response_text' = "none"
    /\ ResetCall
    /\ Taken(Session)
    /\ UNCHANGED <<df, price_metric, callerVars, voiceVars>>

InitChat ==
    /\ df = ChatDataset
    /\ InitCall
    /\ price_metric = Absent
    /\ InitProfiles
    /\ InitScript
    /\ InitCallers
    /\ InitVoice
    /\ tie = "up"

NextChat ==
    \/ ScriptTop
    \/ ScriptActive
    \/ ScriptWait
    \/ SidebarNewSearch
    \/ \E d \in Decisions : Decide(d)
    \/ Reset
    \/ \E e \in Extractions : Extract(e)
    \/ SearchStep
    \/ Respond
    \/ Rerun
    \/ Write(Session)
    \/ Body(Session)

SpecChat == InitChat /\ [][NextChat]_vars

(***************************************************************************)
(* Callers of search side by side on one engine. A call runs in stages:    *)
(* the copy of self.df (line 27), the price filter on the copy (33-46),    *)
(* then the weights from self.df, the scores, the drop, the sort and head  *)
(* (52-131). The sort of the build is one function of its input: records   *)
(* of equal score leave it in the order of the dataset (tie "up") or in    *)
(* the opposite order (tie "down").                                        *)
(***************************************************************************)
\* a variant in which `filtered` is self.df itself and no copy: a column
\* assigned to `filtered` is a column of the dataset
SharedFrame(frame) ==
    [i \in 1..Len(frame) |-> frame[i] @@ [parsed_price |-> parse_price(frame[i].price)]]

\* self.df after a column of `filtered` was assigned: `filtered` is a copy
\* of self.df, the dataset is as it was
OwnFrame(frame) == frame

\* sort_values of the build
SortBy(rows, order) ==
    CHOOSE s \in SortOutcomes(rows) :
        \A i, j \in 1..Len(s) :
            (i < j /\ s[i].search_score = s[j].search_score)
            => IF order = "up" THEN s[i].idx < s[j].idx ELSE s[i].idx > s[j].idx

\* the dicts the callers pass as criteria
CallerCriteria ==
    {kw \o mp \o other :
        kw \in {<<>>, <<Item("keywords", JList(<< <<"S", "o">> >>))>>},
        mp \in {<<>>, <<Item("max_price", None)>>, <<Item("max_price", JNum(0))>>,
                <<Item("max_price", JNum(0 - 1))>>, <<Item("max_price", JNum(10000))>>},
        other \in {<<>>, <<Item("bedrooms", JNum(3)), Item("min_price", JNum(20000))>>}}

CallerLimits == {1, DefaultLimit}

CallerDatasets ==
    { << Record(T_SoDi, T_So, T_Wh, NaN, NaN, NaN, P_11000),
         Record(NaN, T_So, T_El, NaN, NaN, NaN, P_11001) >>,
      << Record(NaN, T_So, T_El, NaN, NaN, NaN, P_11001),
         Record(T_SoDi, T_So, T_Wh, NaN, NaN, NaN, P_11000) >>,
      << Record(NaN, T_So, T_El, NaN, NaN, NaN, P_11001),
         Record(NaN, T_So, T_El, NaN, NaN, NaN, P_11000) >> }

\* search(criteria, limit) is entered: filtered = self.df.copy()
Enter(c) ==
    /\ calls[c].pc = "idle"
    /\ \E crit \in CallerCriteria, lim \in CallerLimits :
          calls' = [calls EXCEPT ![c] =
                       [IdleCall EXCEPT !.pc = "copied", !.criteria = crit,
                                        !.limit = lim, !.frame = df]]
    /\ UNCHANGED <<df, tie, voiceVars>>
    /\ UNCHANGED <<price_metric, callVars, profileVars, chatVars, voiceVars>>

\* stage 1: the parsed_price column is assigned and the rows are filtered
PriceStage(c) ==
    /\ calls[c].pc = "copied"
    /\ \E max_price \in {GetMaxPrice(calls[c].criteria)} :
       \E p \in {PriceFilter(calls[c].frame, max_price)} :
          /\ calls' = [calls EXCEPT ![c].pc = "priced", ![c].priced = p]
          /\ df' = IF PriceFilterOn(max_price) THEN OwnFrame(df) ELSE df
    /\ UNCHANGED tie
    /\ UNCHANGED <<price_metric, callVars, profileVars, chatVars, voiceVars>>

\* stage 2 and the return: the weights are counted on self.df, the
\* search_score and matched_terms columns are assigned, the rows are dropped
\* and sorted, and head(limit) is handed back
ScoreStage(c) ==
    /\ calls[c].pc = "priced"
    /\ \E keywords \in {GetKeywords(calls[c].criteria)} :
          IF KeywordsGiven(keywords)
          THEN \E w \in {KeywordWeights(df, keywords.v)} :
               \E sc \in {Scored(calls[c].frame, calls[c].priced, w)} :
                  /\ calls' = [calls EXCEPT ![c].pc = "returned",
                                            ![c].keyword_weights = w,
                                            ![c].scored = sc,
                                            ![c].result =
                                                Head_(SortBy(Positive(sc), tie),
                                                      calls[c].limit)]
                  /\ df' = OwnFrame(df)
          ELSE /\ calls' = [calls EXCEPT ![c].pc = "returned",
                                         ![c].result =
                                             Head_(calls[c].priced, calls[c].limit)]
               /\ df' = df
    /\ UNCHANGED tie
    /\ UNCHANGED <<price_metric, callVars, profileVars, chatVars, voiceVars>>

\* the caller has taken the result
Leave(c) ==
    /\ calls[c].pc = "returned"
    /\ calls' = [calls EXCEPT ![c] = IdleCall]
    /\ UNCHANGED <<df, tie, voiceVars>>
    /\ UNCHANGED <<price_metric, callVars, profileVars, chatVars, voiceVars>>

InitShared ==
    /\ df \in CallerDatasets
    /\ InitCall
    /\ price_metric = Absent
    /\ InitProfiles
    /\ InitScript
    /\ InitCallers
    /\ InitVoice
    /\ tie \in {"up", "down"}

NextShared ==
    \/ \E c \in Callers : Enter(c)
    \/ \E c \in Callers : PriceStage(c)
    \/ \E c \in Callers : ScoreStage(c)
    \/ \E c \in Callers : Leave(c)

SpecShared == InitShared /\ [][NextShared]_vars

(***************************************************************************)
(* Properties.                                                             *)
(***************************************************************************)
\* the call that is handing back its result was given keywords
WithKeywords == returned /\ criteria.keywords.t = "some" /\ Len(criteria.keywords.v) > 0

\* the distinct keywords of the call
KeywordSet == {criteria.keywords.v[i] : i \in 1..Len(criteria.keywords.v)}

\* the weight the call computed for a keyword
WeightOf(kw) == (CHOOSE i \in 1..Len(keyword_weights) : keyword_weights[i].kw = kw)

\* every whitespace-separated token of the keyword occurs in the text, ignoring case
EveryTokenIn(kw, text) ==
    \A tokens \in {Split(Lower(kw))}, lowered \in {Lower(text)} :
        \A i \in 1..Len(tokens) : Contains(lowered, tokens[i])

\* m(K) of a record: 10, 5, 3, 1 or 0 by the first field group that holds K
TierOf(row, kw) ==
    IF EveryTokenIn(kw, PyStr(row.name)) THEN 10
    ELSE IF EveryTokenIn(kw, PyStr(row.dev)) THEN 5
    ELSE IF EveryTokenIn(kw, PyStr(row.loc)) THEN 3
    ELSE IF EveryTokenIn(kw, PyStr(row.region) \o <<" ">> \o PyStr(row.nearby)
                                 \o <<" ">> \o PyStr(row.amen)) THEN 1
    ELSE 0

RECURSIVE TieredSum(_, _)
TieredSum(row, kws) ==
    IF kws = {} THEN Zero
    ELSE LET kw == CHOOSE k \in kws : TRUE
         IN  RatAdd(RatTimes(keyword_weights[WeightOf(kw)].weight, TierOf(row, kw)),
                    TieredSum(row, kws \ {kw}))

\* C1: the search_score of every record that passed the price filter is the
\* sum, over the keywords of the criteria, of weight(K) x m(K), where m(K) is
\* 10, 5, 3 or 1 by the first of project name, developer, location and
\* region/nearby/amenities that holds every token of K, and 0 if none does.
C1_ScoreIsTieredSum ==
    WithKeywords =>
        /\ Len(scored) = Len(priced)
        /\ \A kws \in {KeywordSet} :
              \A i \in 1..Len(scored) :
                  /\ scored[i].idx = priced[i].idx
                  /\ scored[i].search_score = TieredSum(df[scored[i].idx], kws)

\* a keyword held by both the project name and the developer of a record
\* counted at the project-name tier only, and a record scored by two keywords
C1_Witness ==
    /\ WithKeywords
    /\ \E i \in 1..Len(scored), kw \in KeywordSet :
          /\ EveryTokenIn(kw, PyStr(df[scored[i].idx].name))
          /\ EveryTokenIn(kw, PyStr(df[scored[i].idx].dev))
          /\ scored[i].matched_terms = <<kw>>
          /\ RatLess(Zero, scored[i].search_score)
          /\ scored[i].search_score = RatTimes(keyword_weights[WeightOf(kw)].weight, 10)
    /\ \E i \in 1..Len(scored) : Len(scored[i].matched_terms) = 2

\* the number of records of the full dataset that hold every token of the
\* keyword in project name, developer, location, region and nearby developments
Rarity(kw) ==
    Cardinality({i \in 1..Len(df) :
        EveryTokenIn(kw, PyStr(df[i].name) \o <<" ">> \o PyStr(df[i].dev) \o <<" ">>
                         \o PyStr(df[i].loc) \o <<" ">> \o PyStr(df[i].region)
                         \o <<" ">> \o PyStr(df[i].nearby))})

\* C2: the weight of every keyword of a call is 0 when no record of the full
\* dataset matches it and 100 / matches otherwise, whatever max_price is and
\* whichever records pass the price filter; of two keywords with matches, the
\* one matching fewer records has the strictly larger weight.
C2_WeightIsRarity ==
    WithKeywords =>
        /\ {keyword_weights[i].kw : i \in 1..Len(keyword_weights)} = KeywordSet
        /\ \A matches \in {[i \in 1..Len(keyword_weights) |-> Rarity(keyword_weights[i].kw)]} :
              /\ \A i \in 1..Len(keyword_weights) :
                    LET weight == keyword_weights[i].weight
                    IN  IF matches[i] = 0 THEN weight = Zero
                        ELSE weight.k = "num" /\ weight.n * matches[i] = 100 * weight.d
              /\ \A i, j \in 1..Len(keyword_weights) :
                    (0 < matches[i] /\ matches[i] < matches[j])
                    => RatLess(keyword_weights[j].weight, keyword_weights[i].weight)

\* a record that the price filter removed still counts for the weight, and
\* two keywords of different rarity have different weights
C2_Witness ==
    /\ WithKeywords
    /\ \E i \in 1..Len(df), kw \in KeywordSet :
          /\ \A j \in 1..Len(priced) : priced[j].idx # i
          /\ EveryTokenIn(kw, PyStr(df[i].dev))
          /\ Rarity(kw) = 2
          /\ keyword_weights[WeightOf(kw)].weight = Rat(50, 1)
    /\ \E i, j \in 1..Len(keyword_weights) :
          /\ RatLess(Zero, keyword_weights[i].weight)
          /\ RatLess(keyword_weights[i].weight, keyword_weights[j].weight)

\* C3: a keyword of weight 0 (no record matched it in the weighting stage)
\* is in the matched_terms of no record that search returns.
C3_ZeroWeightNeverMatched ==
    WithKeywords =>
        \A i \in 1..Len(result) :
            \A t \in 1..Len(result[i].matched_terms) :
                keyword_weights[WeightOf(result[i].matched_terms[t])].weight # Zero

\* the record at position i of the dataset passed the price filter
Kept(i) == \E j \in 1..Len(priced) : priced[j].idx = i

\* C4: under a positive max_price a record passes the price filter if and
\* only if its parsed price is at most max_price * 1.1; with max_price 10000
\* a price of 11000 passes and a price of 11001 is in no result.
C4_PriceBand ==
    (returned /\ criteria.max_price.t = "some" /\ criteria.max_price.v > 0) =>
        /\ \A i \in 1..Len(df) :
              LET p == parse_price(df[i].price)
              IN  Kept(i) <=> (p.k = "num" /\ p.n * 10 <= criteria.max_price.v * 11 * p.d)
        /\ criteria.max_price.v = 10000 =>
              \A i \in 1..Len(df) :
                  /\ df[i].price = P_11000 => Kept(i)
                  /\ df[i].price = P_11001 =>
                        ~Kept(i) /\ \A j \in 1..Len(result) : result[j].idx # i

\* a search under max_price 10000 over a record priced 11000, which stays,
\* and a record priced 11001, which goes
C4_Witness ==
    /\ returned
    /\ criteria.max_price = Some(10000)
    /\ \E i, j \in 1..Len(df) :
          /\ df[i].price = P_11000 /\ Kept(i)
          /\ df[j].price = P_11001 /\ ~Kept(j)

\* the price text after cleaning: currency symbol, commas and tildes removed,
\* surrounding whitespace stripped, and of a range the part left of the hyphen
Cleaned(s) ==
    LET c == Strip(SelectSeq(s, LAMBDA x : x \notin {"₹", ",", "~"}))
    IN  IF \E i \in 1..Len(c) : c[i] = "-" THEN Strip(BeforeFirst(c, "-")) ELSE c

\* digits with at most one decimal point
PurelyNumeric(a) ==
    /\ \E i \in 1..Len(a) : a[i] \in Digits
    /\ \A i \in 1..Len(a) : a[i] \in Digits \cup {"."}
    /\ Cardinality({i \in 1..Len(a) : a[i] = "."}) <= 1

\* the value of a purely numeric text
DecimalValue(a) ==
    LET point == IF \E i \in 1..Len(a) : a[i] = "."
                 THEN CHOOSE i \in 1..Len(a) : a[i] = "." ELSE Len(a)
    IN  Rat(DigitsVal(SelectSeq(a, LAMBDA x : x # ".")), Pow10(Len(a) - point))

\* C5: a raw price that is missing or not purely numeric after cleaning
\* parses to 0, so under a positive max_price its record passes the filter.
C5_UnparsableIsZero ==
    (returned /\ criteria.max_price.t = "some" /\ criteria.max_price.v > 0) =>
        \A i \in 1..Len(df) :
            (df[i].price.t = "nan" \/ ~PurelyNumeric(Cleaned(df[i].price.s))) =>
                /\ parse_price(df[i].price) = Zero
                /\ Kept(i)

\* C6: a price text of the form a-b with a numeric parses to a, the part
\* left of the first hyphen, in search and in the details panel.
C6_RangeLowerBound ==
    \A i \in 1..Len(df) :
        LET raw == df[i].price
            c == Strip(SelectSeq(raw.s, LAMBDA x : x \notin {"₹", ",", "~"}))
            a == Strip(BeforeFirst(c, "-"))
        IN  (raw.t = "str" /\ (\E k \in 1..Len(c) : c[k] = "-") /\ PurelyNumeric(a)) =>
                /\ parse_price(raw) = DecimalValue(a)
                /\ \A j \in 1..Len(priced) :
                      (priced[j].idx = i /\ priced[j].parsed_price # Absent)
                      => priced[j].parsed_price = DecimalValue(a)
                /\ price_metric # Absent => price_metric = DecimalValue(a)

\* '4500-5000' searched under a price limit and shown in the details panel
C6_Witness ==
    /\ returned
    /\ df[1].price = P_Range
    /\ Len(priced) = 1
    /\ priced[1].parsed_price = Rat(4500, 1)
    /\ price_metric = Rat(4500, 1)

\* C7: with keywords, every returned record has a positive score, no record
\* of score 0 is kept, and the records are in non-increasing order of score.
C7_PositiveAndSorted ==
    WithKeywords =>
        /\ \A i \in 1..Len(filtered) : RatLess(Zero, filtered[i].search_score)
        /\ \A i \in 1..Len(result) : RatLess(Zero, result[i].search_score)
        /\ \A i \in 1..Len(scored) :
              scored[i].search_score = Zero =>
                  /\ \A j \in 1..Len(filtered) : filtered[j].idx # scored[i].idx
                  /\ \A j \in 1..Len(result) : result[j].idx # scored[i].idx
        /\ \A i, j \in 1..Len(filtered) :
              i < j => ~RatLess(filtered[i].search_score, filtered[j].search_score)
        /\ \A i, j \in 1..Len(result) :
              i < j => ~RatLess(result[i].search_score, result[j].search_score)

\* the first record of the dataset scored 0 and was dropped, the second
\* scored more than 0 and came back
C7_Witness ==
    /\ WithKeywords
    /\ Len(scored) = 2
    /\ scored[1].search_score = Zero
    /\ Len(result) = 1
    /\ result[1].idx = 2
    /\ RatLess(Zero, result[1].search_score)

\* C8: records of equal score come back in their order in the dataset.
C8_StableOrder ==
    WithKeywords =>
        \A i, j \in 1..Len(result) :
            (i < j /\ result[i].search_score = result[j].search_score)
            => result[i].idx < result[j].idx

\* C9: without keywords (an empty or absent list) nothing is weighted, scored,
\* dropped or sorted: the result is the first min(limit, n) of the n records
\* that passed the price filter, in dataset order; without a max_price these
\* are the first min(limit, N) records of the dataset.
C9_NoKeywordsPassThrough ==
    (returned /\ (criteria.keywords = None \/ criteria.keywords = Some(<<>>))) =>
        /\ keyword_weights = <<>>
        /\ \A i, j \in 1..Len(priced) : i < j => priced[i].idx < priced[j].idx
        /\ Len(result) = (IF limit <= Len(priced) THEN limit ELSE Len(priced))
        /\ \A i \in 1..Len(result) :
              /\ result[i] = priced[i]
              /\ result[i].search_score = Absent
              /\ result[i].matched_terms = <<>>
        /\ criteria.max_price = None =>
              /\ Len(result) = (IF limit <= Len(df) THEN limit ELSE Len(df))
              /\ \A i \in 1..Len(result) : result[i].idx = i

\* an empty keyword list, no max_price, a limit below the size of the dataset
C9_Witness ==
    /\ returned
    /\ criteria.keywords = Some(<<>>)
    /\ criteria.max_price = None
    /\ Len(df) = 2
    /\ limit = 1
    /\ Len(result) = 1
    /\ result[1].idx = 1

\* C10: the result is the first min(limit, n) records of the assembled list
\* of n records, in the same order: never more than limit records, and never
\* a record in place of one ranked above it.
C10_FirstLimitRows ==
    returned =>
        /\ Len(result) = (IF limit <= Len(filtered) THEN limit ELSE Len(filtered))
        /\ Len(result) <= limit
        /\ \A i \in 1..Len(result) : result[i] = filtered[i]
        /\ WithKeywords =>
              \A i \in 1..Len(result), j \in 1..Len(filtered) :
                  (\A k \in 1..Len(result) : result[k].idx # filtered[j].idx)
                  => ~RatLess(result[i].search_score, filtered[j].search_score)

\* two records ranked, the limit 1: the higher-ranked one comes back
C10_Witness ==
    /\ WithKeywords
    /\ Len(filtered) = 2
    /\ limit = 1
    /\ Len(result) = 1
    /\ RatLess(filtered[2].search_score, result[1].search_score)

\* the call of the instance has handed back and is a call of that method
Done(m, op) == mpc[m] = "done" /\ call[m].op = op

\* the keys of a dict
Keys(d) == {d[i].k : i \in 1..Len(d)}

\* C11: update_funnel_criteria on a funnel that exists merges field by field:
\* a key whose new value is null is not in the stored criteria afterwards, a
\* key with a non-null new value holds that value, and a key the new criteria
\* do not mention is stored with the value it had, or not stored as before;
\* {bedrooms: null} merged into {bedrooms: 3, location: 'Whitefield'} leaves
\* {location: 'Whitefield'}.
C11_MergeFieldByField ==
    \A m \in Managers :
        (Done(m, "update_funnel_criteria") /\ call[m].ret.t = "funnel") =>
            \A old \in {Deref(call[m].before, call[m].ret).criteria},
               merged \in {Deref(data[m], call[m].ret).criteria},
               items \in {call[m].new_criteria.v} :
                /\ Deref(data[m], call[m].ret).id = call[m].funnel_id
                /\ \A i \in 1..Len(items) :
                      IF items[i].v = None
                      THEN items[i].k \notin Keys(merged)
                      ELSE /\ items[i].k \in Keys(merged)
                           /\ ValueOf(merged, items[i].k) = items[i].v
                /\ \A k \in (Keys(old) \cup Keys(merged)) \ Keys(items) :
                      /\ k \in Keys(old)
                      /\ k \in Keys(merged)
                      /\ ValueOf(merged, k) = ValueOf(old, k)
                /\ (old = D_Bed3Wh /\ items = D_BedNull)
                   => merged = <<Item("location", JStr("Whitefield"))>>

\* {bedrooms: null} was merged into {bedrooms: 3, location: 'Whitefield'}
C11_Witness ==
    \E m \in Managers :
        /\ Done(m, "update_funnel_criteria")
        /\ call[m].ret.t = "funnel"
        /\ call[m].new_criteria = JDict(D_BedNull)
        /\ Deref(call[m].before, call[m].ret).criteria = D_Bed3Wh
        /\ Deref(data[m], call[m].ret).criteria = <<Item("location", JStr("Whitefield"))>>

\* the criteria of the funnel that the active_funnel_id of the session's user names
ActiveCriteria ==
    LET user == data[Session][ChatUser]
    IN  user.funnels[FunnelIndex(user.funnels, user.active_funnel_id)].criteria

\* merged holds what old held and items set, without what items set to null
IsMerge(old, items, merged) ==
    /\ Keys(merged) = {k \in Keys(old) \cup Keys(items) :
                          k \in Keys(items) => ValueOf(items, k) # None}
    /\ \A k \in Keys(merged) :
          ValueOf(merged, k) = IF k \in Keys(items) THEN ValueOf(items, k)
                               ELSE ValueOf(old, k)

\* C12: whenever the pipeline has invoked search for a message, under UPDATE
\* and under NEW, update_funnel_criteria has returned the active funnel and
\* saved it, and the criteria passed to search, and then to the pitch
\* generator, are the criteria of the active funnel: the merge of the
\* extractor's delta into what that funnel held (nothing, under NEW), not the
\* delta and not the criteria of the funnel that was active before.
C12_MergedBeforeSearch ==
    /\ spc \in {"searched", "responded"} =>
          /\ decision \in {"UPDATE", "NEW"}
          /\ Done(Session, "update_funnel_criteria")
          /\ call[Session].ret = active_funnel
          /\ document = Json(data[Session])
          /\ search_criteria = ActiveCriteria
          /\ IsMerge(IF decision = "NEW" THEN <<>>
                     ELSE Deref(call[Session].before, active_funnel).criteria,
                     new_criteria.v, search_criteria)
    /\ spc = "responded" => sales_criteria = search_criteria

\* under NEW, with a delta that sets a key to null, after a funnel that held
\* criteria: search was given the merge, which is neither
C12_Witness ==
    /\ spc = "responded"
    /\ decision = "NEW"
    /\ active_funnel.i = 2
    /\ data[Session][ChatUser].funnels[1].criteria # <<>>
    /\ new_criteria = JDict(D_Bed3NoPrice)
    /\ search_criteria = <<Item("bedrooms", JNum(3))>>
    /\ sales_criteria = search_criteria

\* what search hands back for a dataset, criteria and a limit, under the
\* order in which the sort of the build leaves records of equal score
ResultOf(dataset, crit, lim, order) ==
    LET keywords == GetKeywords(crit)
        p == PriceFilter(dataset, GetMaxPrice(crit))
    IN  IF KeywordsGiven(keywords)
        THEN Head_(SortBy(Positive(Scored(dataset, p,
                                          KeywordWeights(dataset, keywords.v))),
                          order), lim)
        ELSE Head_(p, lim)

\* C13: no step of any call of search, also of calls that run side by side,
\* changes the loaded dataset: it keeps its records, their fields and their
\* order (parsed_price, search_score and matched_terms are columns of the
\* copy of the call), and what a call hands back is what search yields for
\* the dataset, the criteria and the limit of that call alone.
C13_DatasetUntouched ==
    [][/\ df' = df
       /\ \A c \in Callers :
             (calls[c].pc # "returned" /\ calls'[c].pc = "returned")
             => calls'[c].result = ResultOf(df, calls'[c].criteria, calls'[c].limit, tie)
      ]_vars

\* one call has handed back scored records while the other call, entered
\* before that, has filtered by price and is still to score
C13_Witness ==
    /\ calls["c1"].pc = "returned"
    /\ Len(calls["c1"].result) > 0
    /\ calls["c1"].result[1].search_score # Absent
    /\ calls["c2"].pc = "priced"
    /\ PriceFilterOn(GetMaxPrice(calls["c2"].criteria))
    /\ Len(calls["c2"].priced) < Len(df)

\* the extraction of the message failed: the model call raised, or its
\* response is not the JSON object asked for
ExtractionFailed == extraction \in {"error", "not_json", "not_object"}

\* C14: when the extraction of a message fails, extract hands back the empty
\* dict, the merge leaves the stored criteria of the active funnel as they
\* were (under UPDATE), and the run of the pipeline is not ended before
\* search and the response.
C14_FailedExtractionIsEmpty ==
    ExtractionFailed =>
        /\ new_criteria = JDict(<<>>)
        /\ spc # "aborted"
        /\ (decision = "UPDATE" /\ mpc[Session] = "done") =>
              Deref(data[Session], active_funnel).criteria
                  = Deref(call[Session].before, active_funnel).criteria
        /\ spc = "responded" => response_text # "none"

\* the text of a cell with a missing cell taken as the empty string
Blank(cell) == IF cell.t = "nan" THEN <<>> ELSE cell.s

\* the tier of calculate_score that a keyword reaches in a record whose
\* missing fields are empty strings
TierBlank(row, kw) ==
    IF EveryTokenIn(kw, Blank(row.name)) THEN 10
    ELSE IF EveryTokenIn(kw, Blank(row.dev)) THEN 5
    ELSE IF EveryTokenIn(kw, Blank(row.loc)) THEN 3
    ELSE IF EveryTokenIn(kw, Blank(row.region) \o <<" ">> \o Blank(row.nearby)
                                 \o <<" ">> \o Blank(row.amen)) THEN 1
    ELSE 0

\* the match count of the weighting stage over records whose missing fields
\* are empty strings
RarityBlank(kw) ==
    Cardinality({i \in 1..Len(df) :
        EveryTokenIn(kw, Blank(df[i].name) \o <<" ">> \o Blank(df[i].dev) \o <<" ">>
                         \o Blank(df[i].loc) \o <<" ">> \o Blank(df[i].region)
                         \o <<" ">> \o Blank(df[i].nearby))})

\* C15: a missing field counts as the empty string in the weighting and in
\* the scoring stage: the weight of every keyword is 100 over the number of
\* records that hold it in a field that is there, a keyword is among the
\* matched_terms of a record exactly if a field that is there holds it, and
\* every record that passed the price filter is scored.
C15_MissingIsEmpty ==
    WithKeywords =>
        /\ Len(scored) = Len(priced)
        /\ \A i \in 1..Len(keyword_weights) :
              \A matches \in {RarityBlank(keyword_weights[i].kw)} :
                  IF matches = 0 THEN keyword_weights[i].weight = Zero
                  ELSE keyword_weights[i].weight = Rat(100, matches)
        /\ \A i \in 1..Len(scored), kw \in KeywordSet :
              (\E t \in 1..Len(scored[i].matched_terms) : scored[i].matched_terms[t] = kw)
              <=> TierBlank(df[scored[i].idx], kw) > 0

\* the list without the later occurrences of its elements
RECURSIVE FirstOccurrences(_)
FirstOccurrences(kws) ==
    IF Len(kws) = 0 THEN <<>>
    ELSE LET front == SubSeq(kws, 1, Len(kws) - 1)
             last == kws[Len(kws)]
         IN  IF \E i \in 1..Len(front) : front[i] = last
             THEN FirstOccurrences(front)
             ELSE Append(FirstOccurrences(front), last)

\* C20: a keyword that occurs more than once in criteria.keywords is weighted
\* and scored once: search_score and matched_terms of every record are those
\* of the keyword list without the later occurrences, and matched_terms holds
\* every keyword at most once, in the order of the first occurrences.
C20_DuplicatesCountOnce ==
    WithKeywords =>
        \A kws \in {FirstOccurrences(criteria.keywords.v)} :
        \A weights \in {KeywordWeights(df, kws)} :
            /\ Len(keyword_weights) = Len(kws)
            /\ \A i \in 1..Len(kws) : keyword_weights[i].kw = kws[i]
            /\ \A i \in 1..Len(scored) :
                  \A once \in {calculate_score(df[scored[i].idx], weights)} :
                      /\ scored[i].search_score = once.score
                      /\ scored[i].matched_terms = once.matched_terms
                      /\ scored[i].matched_terms
                            = SelectSeq(kws, LAMBDA kw : TierOf(df[scored[i].idx], kw) > 0)

\* the list So, po, So and a record that holds both keywords: So is scored
\* once and matched_terms is So, po
C20_Witness ==
    /\ WithKeywords
    /\ criteria.keywords.v = << <<"S", "o">>, <<"p", "o">>, <<"S", "o">> >>
    /\ \E i \in 1..Len(scored) :
          /\ scored[i].matched_terms = << <<"S", "o">>, <<"p", "o">> >>
          /\ scored[i].search_score
                = RatAdd(RatTimes(keyword_weights[1].weight, TierOf(df[scored[i].idx], <<"S", "o">>)),
                         RatTimes(keyword_weights[2].weight, TierOf(df[scored[i].idx], <<"p", "o">>)))
          /\ RatLess(Zero, scored[i].search_score)

\* the call of the instance has handed back and has changed self.data
Changed(m) == mpc[m] = "done" /\ data[m] # call[m].before

\* another instance is between the open and the json.dump of _save_data
OtherSaving(m) == \E o \in Managers \ {m} : mpc[o] \in {"user_write", "write"}

\* C16: when a method that changed self.data has returned, the document is
\* the complete data of the instance that wrote last: the data of this
\* instance or, with two instances on the file, the data of the other one
\* (or the file the other one has just opened for writing).
C16_DocumentIsLastWrite ==
    \A m \in Managers :
        Changed(m) =>
            \/ \E w \in Managers : document = Json(data[w])
            \/ OtherSaving(m) /\ document = Emptied

\* the funnels and the active_funnel_id that the user had when the call
\* began; a user that did not exist had none
FunnelsBefore(m) ==
    IF call[m].user_id \in DOMAIN call[m].before
    THEN call[m].before[call[m].user_id].funnels
    ELSE <<>>

ActiveBefore(m) ==
    IF call[m].user_id \in DOMAIN call[m].before
    THEN call[m].before[call[m].user_id].active_funnel_id
    ELSE NoId

\* active_funnel_id was unset or named none of the user's funnels
NoActiveBefore(m) ==
    \/ ActiveBefore(m) = NoId
    \/ \A i \in 1..Len(FunnelsBefore(m)) : FunnelsBefore(m)[i].id # ActiveBefore(m)

\* C17: whatever calls came before, get_active_funnel hands back a funnel
\* that is an element of the user's funnels and whose id is the user's
\* active_funnel_id at the return; it appends a new funnel with empty
\* criteria exactly when active_funnel_id was unset or named no funnel of
\* the user, and every funnel that existed is still there, unchanged.
C17_ActiveFunnelIsMember ==
    \A m \in Managers :
        Done(m, "get_active_funnel") =>
            \A user \in {data[m][call[m].user_id]}, old \in {FunnelsBefore(m)},
               ret \in {call[m].ret} :
                /\ ret.t = "funnel"
                /\ ret.user_id = call[m].user_id
                /\ ret.i \in 1..Len(user.funnels)
                /\ user.funnels[ret.i].id = user.active_funnel_id
                /\ Len(user.funnels) >= Len(old)
                /\ SubSeq(user.funnels, 1, Len(old)) = old
                /\ IF NoActiveBefore(m)
                   THEN /\ Len(user.funnels) = Len(old) + 1
                        /\ ret.i = Len(user.funnels)
                        /\ user.funnels[ret.i].criteria = <<>>
                        /\ \A i \in 1..Len(old) : old[i].id # user.funnels[ret.i].id
                   ELSE /\ user.funnels = old
                        /\ user.active_funnel_id = ActiveBefore(m)
                /\ \A u \in DOMAIN call[m].before \ {call[m].user_id} :
                      /\ u \in DOMAIN data[m]
                      /\ data[m][u] = call[m].before[u]

\* switch_funnel had left an active_funnel_id that named none of the user's
\* funnels, one of which carries criteria: get_active_funnel made a new one
C17_Witness ==
    \E m \in Managers :
        /\ Done(m, "get_active_funnel")
        /\ ActiveBefore(m) # NoId
        /\ NoActiveBefore(m)
        /\ Len(FunnelsBefore(m)) = 1
        /\ FunnelsBefore(m)[1].criteria # <<>>
        /\ Len(data[m][call[m].user_id].funnels) = 2

\* the instance holds no user of that id, or the user has no funnel of that id
Unknown(users, user_id, funnel_id) ==
    \/ user_id \notin DOMAIN users
    \/ \A i \in 1..Len(users[user_id].funnels) :
          users[user_id].funnels[i].id # funnel_id

\* C18: update_funnel_criteria with a user id the instance does not hold, or
\* with a funnel id that is not among that user's funnels, hands back None
\* at once: every user, funnel, criteria and active_funnel_id is as before,
\* no user or funnel is created, no uuid drawn, and the document is neither
\* opened nor written.
C18_UnknownTargetIsNoOp ==
    [][\A m \in Managers :
          (/\ mpc[m] = "idle"
           /\ mpc'[m] # "idle"
           /\ call'[m].op = "update_funnel_criteria"
           /\ Unknown(data[m], call'[m].user_id, call'[m].funnel_id))
          => /\ mpc'[m] = "done"
             /\ call'[m].ret = None
             /\ data' = data
             /\ document' = document
             /\ next_id' = next_id]_vars

\* an update with new criteria for a funnel id that the user, who has a
\* funnel with criteria, does not have: None came back and the document is
\* the one of the last save
C18_Witness ==
    \E m \in Managers :
        /\ Done(m, "update_funnel_criteria")
        /\ call[m].user_id \in DOMAIN call[m].before
        /\ Len(call[m].before[call[m].user_id].funnels) > 0
        /\ call[m].before[call[m].user_id].funnels[1].criteria # <<>>
        /\ Unknown(call[m].before, call[m].user_id, call[m].funnel_id)
        /\ call[m].new_criteria = JDict(D_Bed2)
        /\ call[m].ret = None
        /\ data[m] = call[m].before
        /\ document = Json(call[m].before)

\* criteria.get(k) as a caller sees it: no value for an absent key
Field(c, k) == IF HasKey(c, k) THEN <<ValueOf(c, k)>> ELSE <<>>

\* the items of the criteria under other keys than keywords and max_price
OtherFields(c) == SelectSeq(c, LAMBDA e : e.k \notin {"keywords", "max_price"})

\* max_price is absent, null, 0 or negative
NoBudget(c) ==
    \/ Field(c, "max_price") = <<>>
    \/ Field(c, "max_price") = <<None>>
    \/ Field(c, "max_price")[1].t = "num" /\ Field(c, "max_price")[1].v <= 0

\* C19: what search hands back depends on the dataset, criteria.keywords,
\* criteria.max_price and the limit only: two calls on the same dataset whose
\* criteria agree on keywords and max_price and whose limits agree hand back
\* the same records in the same order with the same scores, whatever other
\* fields (min_price, bedrooms, ...) the criteria hold; and under a max_price
\* that is null, absent, 0 or negative the price filter excludes no record.
C19_OnlyKeywordsAndMaxPrice ==
    /\ \A c1, c2 \in Callers :
          (/\ calls[c1].pc = "returned"
           /\ calls[c2].pc = "returned"
           /\ Field(calls[c1].criteria, "keywords") = Field(calls[c2].criteria, "keywords")
           /\ Field(calls[c1].criteria, "max_price") = Field(calls[c2].criteria, "max_price")
           /\ calls[c1].limit = calls[c2].limit)
          => calls[c1].result = calls[c2].result
    /\ \A c \in Callers :
          (calls[c].pc \in {"priced", "returned"} /\ NoBudget(calls[c].criteria))
          => /\ Len(calls[c].priced) = Len(df)
             /\ \A i \in 1..Len(df) : calls[c].priced[i].idx = i
             /\ (calls[c].pc = "returned" /\ Field(calls[c].criteria, "keywords") = <<>>)
                => Len(calls[c].result) = Min(calls[c].limit, Len(df))

\* two calls with the keywords ['So'] and the max_price -1, one of them with
\* bedrooms and min_price besides, have handed back the same two records
C19_Witness ==
    /\ calls["c1"].pc = "returned"
    /\ calls["c2"].pc = "returned"
    /\ Field(calls["c1"].criteria, "keywords") = <<JList(<< <<"S", "o">> >>)>>
    /\ Field(calls["c2"].criteria, "keywords") = <<JList(<< <<"S", "o">> >>)>>
    /\ Field(calls["c1"].criteria, "max_price") = <<JNum(0 - 1)>>
    /\ Field(calls["c2"].criteria, "max_price") = <<JNum(0 - 1)>>
    /\ OtherFields(calls["c1"].criteria) = <<>>
    /\ OtherFields(calls["c2"].criteria) # <<>>
    /\ calls["c1"].limit = calls["c2"].limit
    /\ Len(calls["c1"].priced) = Len(df)
    /\ Len(calls["c1"].result) = 2
    /\ calls["c1"].result = calls["c2"].result

\* the weighting stage counts the record for the keyword: every token of the
\* keyword occurs in the project name, developer, location, region and
\* nearby developments of the record, joined by spaces
Counted(row, kw) ==
    EveryTokenIn(kw, PyStr(row.name) \o <<" ">> \o PyStr(row.dev) \o <<" ">>
                     \o PyStr(row.loc) \o <<" ">> \o PyStr(row.region) \o <<" ">>
                     \o PyStr(row.nearby))

\* C21: a record that passed the price filter and that the weighting stage
\* counts for a keyword K of the call gets a contribution from K in some
\* scoring tier: K is in its matched_terms and its search_score is positive,
\* also when K has several words whose tokens lie in different fields.
C21_CountedIsScored ==
    WithKeywords =>
        \A j \in 1..Len(scored) :
            \A kw \in KeywordSet :
                Counted(df[scored[j].idx], kw)
                => /\ TierOf(df[scored[j].idx], kw) # 0
                   /\ \E t \in 1..Len(scored[j].matched_terms) :
                         scored[j].matched_terms[t] = kw
                   /\ RatLess(Zero, scored[j].search_score)

\* the same for the keywords of one word only
OneWordCountedIsScored ==
    WithKeywords =>
        \A j \in 1..Len(scored) :
            \A kw \in KeywordSet :
                (Counted(df[scored[j].idx], kw) /\ Len(Split(kw)) = 1)
                => /\ TierOf(df[scored[j].idx], kw) # 0
                   /\ \E t \in 1..Len(scored[j].matched_terms) :
                         scored[j].matched_terms[t] = kw
                   /\ RatLess(Zero, scored[j].search_score)

(***************************************************************************)
(* RealTimeTranscriber (src/src/voice/transcriber.py). The bytes passed to *)
(* stream are named by the call and their place in it, so that no two are *)
(* alike. The streaming service opens the session of a client after its    *)
(* connect (on_begin) and ends a session it had opened (on_terminated);    *)
(* the end of the session of a client that close has disconnected may or   *)
(* may not be reported.                                                    *)
(***************************************************************************)
\* self.buffer_size
buffer_size == 480

\* the stream calls of a run
MaxAudio == 3

\* the lengths of the audio passed to stream: 20 ms, 60 ms and 125 ms at
\* 8000 bytes a second
AudioSizes == {160, 480, 1000}

\* the audio_data of the call: len bytes
Audio(n, len) == [i \in 1..len |-> <<n, i>>]

\* the while loop of stream: chunks of buffer_size bytes leave the buffer
\* for the client
RECURSIVE Drain(_, _)
Drain(buffer, sent) ==
    IF Len(buffer) >= buffer_size
    THEN Drain(SubSeq(buffer, buffer_size + 1, Len(buffer)),
               Append(sent, SubSeq(buffer, 1, buffer_size)))
    ELSE [audio_buffer |-> buffer, forwarded |-> sent]

\* start: a new client is made and connects
start ==
    /\ client' = "client"
    /\ session' = "started"
    /\ UNCHANGED <<is_connected, audio_buffer, forwarded, heard, arrived>>
    /\ UNCHANGED <<df, price_metric, callVars, profileVars, chatVars, callerVars>>

\* on_begin: the service has opened the session of the client
on_begin ==
    /\ session = "started"
    /\ is_connected' = TRUE
    /\ session' = "begun"
    /\ UNCHANGED <<client, audio_buffer, forwarded, heard, arrived>>
    /\ UNCHANGED <<df, price_metric, callVars, profileVars, chatVars, callerVars>>

\* on_terminated: the service has ended the session
on_terminated ==
    /\ session \in {"begun", "closed"}
    /\ is_connected' = FALSE
    /\ session' = IF session = "begun" THEN "terminated" ELSE "none"
    /\ UNCHANGED <<client, audio_buffer, forwarded, heard, arrived>>
    /\ UNCHANGED <<df, price_metric, callVars, profileVars, chatVars, callerVars>>

\* stream(audio_data)
stream(len) ==
    /\ arrived < MaxAudio
    /\ \E audio_data \in {Audio(arrived + 1, len)} :
          /\ IF client # "none" /\ is_connected
             THEN \E out \in {Drain(audio_buffer \o audio_data, forwarded)} :
                     /\ audio_buffer' = out.audio_buffer
                     /\ forwarded' = out.forwarded
             ELSE UNCHANGED <<audio_buffer, forwarded>>
          /\ heard' = IF session = "begun" THEN heard \o audio_data ELSE heard
    /\ arrived' = arrived + 1
    /\ UNCHANGED <<client, is_connected, session>>
    /\ UNCHANGED <<df, price_metric, callVars, profileVars, chatVars, callerVars>>

\* close
close ==
    /\ client # "none"
    /\ client' = "none"
    /\ session' = IF session = "begun" THEN "closed" ELSE "none"
    /\ UNCHANGED <<is_connected, audio_buffer, forwarded, heard, arrived>>
    /\ UNCHANGED <<df, price_metric, callVars, profileVars, chatVars, callerVars>>

\* the dataset is of no concern to the transcriber
InitTranscriber ==
    /\ df = <<>>
    /\ InitCall
    /\ price_metric = Absent
    /\ InitProfiles
    /\ InitScript
    /\ InitCallers
    /\ InitVoice
    /\ tie = "up"

NextVoice ==
    \/ start
    \/ on_begin
    \/ on_terminated
    \/ \E len \in AudioSizes : stream(len)
    \/ close

SpecVoice == InitTranscriber /\ [][NextVoice]_vars

\* the chunks one behind the other
Concat(chunks) ==
    LET c[i \in 0..Len(chunks)] == IF i = 0 THEN <<>> ELSE c[i - 1] \o chunks[i]
    IN  c[Len(chunks)]

\* C22: whatever start, on_begin, stream, on_terminated and close events
\* came: every chunk handed to the transcription client has buffer_size
\* (480) bytes; the buffer holds fewer than 480 bytes; and the forwarded
\* chunks followed by the buffer are, in the order of arrival, the audio
\* passed to stream while the session was open, so that audio passed before
\* the session has begun, after it has terminated or after close is neither
\* forwarded nor buffered.
C22_ForwardsWhatWasHeard ==
    /\ \A i \in 1..Len(forwarded) : Len(forwarded[i]) = buffer_size
    /\ Len(audio_buffer) < buffer_size
    /\ Concat(forwarded) \o audio_buffer = heard

====
